---- MODULE Spec2Model ----
(***************************************************************************)
(* Model of snaek: the Pixel colour type and its alpha composition         *)
(* functions (src/src/render/pixel.rs), the UI component helpers           *)
(* (src/src/ui/components.rs) and the game loop that drives the UI         *)
(* every frame (src/src/main.rs).                                          *)
(*                                                                         *)
(* The specifications share the variables:                                 *)
(*   PixelSpec    applies the pure colour functions to sampled pixels;     *)
(*   BitmapSpec   loads a decoded PNG into a Bitmap;                       *)
(*   DisplaySpec  declares the banana counter for every count;             *)
(*   Spec         runs the game loop frame by frame;                       *)
(*   InputSpec    runs it with every combination of the mouse buttons.     *)
(***************************************************************************)
EXTENDS Integers, Sequences, FiniteSets, TLC

VARIABLES
    pixa, pixb, pixres,      \* operands and outcome of a colour function
    img, bitmap,             \* a decoded PNG and the Bitmap loaded from it
    pc,                      \* position of game() inside the game loop
    mouse,                   \* Mouse: pointer region and button pairs
    widgets,                 \* the UiContext widget store, by key
    draw_cmds,               \* the frame's draw command list
    debug,                   \* main.rs:87
    show_game_over,          \* main.rs:88
    snake_game,              \* the SnakeGame
    frame_count,             \* main.rs:94, kept modulo the tick period
    calls,                   \* the UI operations invoked in this frame
    built_twice,             \* keys built more than once in this frame
    declared,                \* keys built in this frame
    last_left,               \* what the window reported for the left button
    last_other,              \* and for the right and the middle button
    pd_run                   \* history of the pointer over btn_playdebug

pixvars == <<pixa, pixb, pixres, img, bitmap>>

gamevars == <<pc, mouse, widgets, draw_cmds, debug, show_game_over,
              snake_game, frame_count, calls, built_twice, declared,
              last_left, last_other, pd_run>>

vars == <<pixa, pixb, pixres, img, bitmap, pc, mouse, widgets, draw_cmds,
          debug, show_game_over, snake_game, frame_count, calls,
          built_twice, declared, last_left, last_other, pd_run>>

(***************************************************************************)
(* Pixel (pixel.rs:3-10): four u8 channels a, r, g, b.                     *)
(***************************************************************************)
U8_MAX == 255

U8_MOD == 256

Pixel(a, r, g, b) == [a |-> a, r |-> r, g |-> g, b |-> b]

\* Sampled channel values: the ends of the u8 range, the neighbours of the
\* ends and the two values around the middle of the range.
AlphaVals == {0, 1, 127, 128, 254, U8_MAX}

ColourVals == {0, 100, U8_MAX}

Pixels == [a : AlphaVals, r : ColourVals, g : ColourVals, b : ColourVals]

\* `x as u8` of a u32 value: truncation to the low 8 bits.
AsU8(x) == x % U8_MOD

Min(x, y) == IF x <= y THEN x ELSE y

Max(x, y) == IF x >= y THEN x ELSE y

\* The outcome of a pixel function: the pixel it returns, or a panic
\* (Rust integer division by zero panics in every build profile).
Returned(op, px) == [op |-> op, panic |-> FALSE, px |-> px]

Panicked(op) == [op |-> op, panic |-> TRUE, px |-> Pixel(0, 0, 0, 0)]

NoResult == [op |-> "none", panic |-> FALSE, px |-> Pixel(0, 0, 0, 0)]

\* alphacomp::over, pixel.rs:134-140.  All arithmetic is u32 (no overflow:
\* at most 255 + 255 * 255); the result alpha and every quotient are cut to
\* u8; each channel is divided by the truncated alpha.
OverAlpha(pa, pb) == AsU8(pa.a + pb.a * (U8_MAX - pa.a))

OverChannel(ca, cb, pa, a) == AsU8((ca + cb * (U8_MAX - pa.a)) \div a)

over(pa, pb) ==
    LET a == OverAlpha(pa, pb)
    IN  IF a = 0
        THEN Panicked("over")
        ELSE Returned("over",
                 Pixel(a,
                       OverChannel(pa.r, pb.r, pa, a),
                       OverChannel(pa.g, pb.g, pa, a),
                       OverChannel(pa.b, pb.b, pa, a)))

\* u8::saturating_add as used by alphacomp::add, pixel.rs:145-148.
WrappingAdd(x, y) == (x + y) % U8_MOD

SaturatingAdd(x, y) == IF x + y > U8_MAX THEN U8_MAX ELSE x + y

\* alphacomp::add, pixel.rs:143-150.
add(pa, pb) ==
    Returned("add",
        Pixel(SaturatingAdd(pa.a, pb.a),
              SaturatingAdd(pa.r, pb.r),
              SaturatingAdd(pa.g, pb.g),
              SaturatingAdd(pa.b, pb.b)))

(***************************************************************************)
(* Packed colours.  A u32 is kept as its two 16-bit halves <<high, low>>,  *)
(* so that every value stays within the integers of the model checker.     *)
(***************************************************************************)
U16_MOD == 65536

\* u32::from_le_bytes([b0, b1, b2, b3]) = b0 + b1*2^8 + b2*2^16 + b3*2^24
from_le_bytes(bytes) ==
    <<bytes[4] * U8_MOD + bytes[3], bytes[2] * U8_MOD + bytes[1]>>

\* Pixel::to_u32, pixel.rs:31-39
to_u32(px) == <<px.a * U8_MOD + px.r, px.g * U8_MOD + px.b>>

\* Pixel::from_hex, pixel.rs:19-28
from_hex(hex) ==
    Pixel((hex[1] \div U8_MOD) % U8_MOD, hex[1] % U8_MOD,
          (hex[2] \div U8_MOD) % U8_MOD, hex[2] % U8_MOD)

(***************************************************************************)
(* load_png_from_memory, main.rs:43-57.  A decoded image is its width,     *)
(* its height and its RGBA pixels, rows from top to bottom, each row from  *)
(* left to right, as into_rgba8().pixels() yields them.                    *)
(***************************************************************************)
MaxImgW == 2

MaxImgH == 2

RgbaVals == {<<1, 2, 3, 4>>, <<255, 0, 128, 200>>, <<0, 0, 0, 0>>}

Images ==
    UNION {[width : {w}, height : {h}, pixels : [1..(w * h) -> RgbaVals]] :
              w \in 1..MaxImgW, h \in 1..MaxImgH}

NoImage == [width |-> 0, height |-> 0, pixels |-> <<>>]

NoBitmap == [op |-> "none", size |-> [w |-> 0, h |-> 0], buffer |-> <<>>]

PackRgbaOrder(rgba) ==
    from_le_bytes(<<rgba[1], rgba[2], rgba[3], rgba[4]>>)

\* main.rs:51-52: let [r, g, b, a] = pixel.0; u32::from_le_bytes([b, g, r, a])
PackPixel(rgba) ==
    LET r == rgba[1]
        g == rgba[2]
        b == rgba[3]
        a == rgba[4]
    IN  from_le_bytes(<<b, g, r, a>>)

load_png_from_memory(image) ==
    [op |-> "loaded",
     size |-> [w |-> image.width % U16_MOD, h |-> image.height % U16_MOD],
     buffer |-> [i \in DOMAIN image.pixels |-> PackPixel(image.pixels[i])]]

(***************************************************************************)
(* Widget keys.  wk!(args) names its call-site and the caller's            *)
(* disambiguators; wk!([key] args) also mixes in the key it is given       *)
(* (components.rs:120).  A key is the sequence of what the macro was       *)
(* given: the parent key if any, the call-site, the disambiguators.        *)
(***************************************************************************)
MainSite(line) == line

CompSite(line) == 1000 + line

wk(site, args) == <<site>> \o args

wkp(parent, site, args) == parent \o <<site>> \o args

NoKey == <<>>

(***************************************************************************)
(* WidgetProps: the properties the declarations set or change.             *)
(***************************************************************************)
NoSprite == <<"none", 0>>

Sprite(name) == <<name, 0>>

DigitSprite(name, d) == <<name, d>>

\* pos(x, y): a position as the pair of its coordinates
pos(x, y) == <<x, y>>

\* Color::from_hex of a literal 0xAARRGGBB, given as its two 16-bit halves
\* (0xAARR, 0xGGBB).
Color(hi, lo) == from_hex(<<hi, lo>>)

\* main.rs:61
SNAEK_BLACK == Color(\hff18, \h1425)

\* The colour and the draw offset of WidgetProps::default(): the zero
\* colour and pos(0, 0).  mask_and is an Option: the empty set is None,
\* {c} is Some(c).
DefaultColor == Pixel(0, 0, 0, 0)

NoMask == {}

Some(c) == {c}

\* The bitwise and of two u32 values, half by half.
RECURSIVE BitAnd(_, _)
BitAnd(x, y) ==
    IF x = 0 \/ y = 0 THEN 0
    ELSE (x % 2) * (y % 2) + 2 * BitAnd(x \div 2, y \div 2)

And32(x, y) == <<BitAnd(x[1], y[1]), BitAnd(x[2], y[2])>>

\* WidgetProps::new(key)
PropsNew(key) ==
    [key |-> key, flags |-> {}, sprite |-> NoSprite, color |-> DefaultColor,
     mask_and |-> NoMask, draw_offset |-> pos(0, 0)]

\* WidgetProps::text, components.rs:17-27
PropsText(key) == [PropsNew(key) EXCEPT !.flags = {"DRAW_TEXT"}]

\* WidgetProps::sprite / simple_sprite / nine_slice_sprite,
\* components.rs:30-50
PropsSprite(key, sprite) ==
    [PropsNew(key) EXCEPT !.flags = {"DRAW_SPRITE"}, !.sprite = sprite]

WithFlags(props, flags) == [props EXCEPT !.flags = flags]

WithSprite(props, sprite) == [props EXCEPT !.sprite = sprite]

WithColor(props, color) == [props EXCEPT !.color = color]

WithMaskAnd(props, mask) == [props EXCEPT !.mask_and = mask]

WithDrawOffset(props, offset) == [props EXCEPT !.draw_offset = offset]

(***************************************************************************)
(* The widget store of UiContext.                                          *)
(***************************************************************************)
DefaultReaction ==
    [hovered |-> FALSE, pressed |-> FALSE, clicked |-> FALSE,
     focused |-> FALSE]

NewWidget(props) ==
    [props |-> props, children |-> <<>>, reaction |-> DefaultReaction,
     touched |-> TRUE, parented |-> FALSE]

\* build_widget(props): the widget of that key keeps its interaction state
\* and takes the new properties, or a new widget is allocated; either way
\* it is marked touched.
BuildWidget(w, props) ==
    IF props.key \in DOMAIN w
    THEN [w EXCEPT ![props.key].props = props, ![props.key].touched = TRUE]
    ELSE w @@ (props.key :> NewWidget(props))

\* add_child(parent, child): appends to the parent's child list of this
\* frame; the first call of a frame for a parent discards its old list.
AddChild(w, parent, child) ==
    IF parent \notin DOMAIN w
    THEN w
    ELSE [w EXCEPT ![parent].children =
                       IF w[parent].parented
                       THEN Append(w[parent].children, child)
                       ELSE <<child>>,
                   ![parent].parented = TRUE]

\* widget_mut(id).props.<field> = value (components.rs:66-67, 91-96)
WidgetMut(w, key, field, value) ==
    IF key \notin DOMAIN w
    THEN w
    ELSE [w EXCEPT ![key].props =
             CASE field = "color" -> [w[key].props EXCEPT !.color = value]
               [] field = "sprite" -> [w[key].props EXCEPT !.sprite = value]
               [] field = "draw_offset" ->
                      [w[key].props EXCEPT !.draw_offset = value]]

\* The WidgetReaction build_widget returns for a key: the interaction state
\* the store holds for it, the default for a key it does not hold.
ReactionOf(w, key) ==
    IF key \in DOMAIN w THEN w[key].reaction ELSE DefaultReaction

\* free_untouched_widgets(): deletes every widget not touched this frame
\* and clears the markers of the others.
FreeUntouched(w) ==
    [k \in {q \in DOMAIN w : w[q].touched} |->
        [w[k] EXCEPT !.touched = FALSE, !.parented = FALSE]]

(***************************************************************************)
(* One declaration call, and a declaration pass as a sequence of them.     *)
(***************************************************************************)
OpBuild(props) ==
    [op |-> "build_widget", key |-> props.key, child |-> NoKey,
     props |-> props, field |-> "", value |-> NoSprite]

OpAddChild(parent, child) ==
    [op |-> "add_child", key |-> parent, child |-> child,
     props |-> PropsNew(NoKey), field |-> "", value |-> NoSprite]

OpMut(key, field, value) ==
    [op |-> "widget_mut", key |-> key, child |-> NoKey,
     props |-> PropsNew(NoKey), field |-> field, value |-> value]

ApplyOp(w, o) ==
    CASE o.op = "build_widget" -> BuildWidget(w, o.props)
      [] o.op = "add_child" -> AddChild(w, o.key, o.child)
      [] o.op = "widget_mut" -> WidgetMut(w, o.key, o.field, o.value)

\* The calls applied to the store one after the other.
RECURSIVE ApplyInOrder(_, _)
ApplyInOrder(w, ops) ==
    IF ops = <<>> THEN w
    ELSE ApplyInOrder(ApplyOp(w, Head(ops)), Tail(ops))

\* A call changes only the widget it names (key), so the pass is applied
\* widget by widget: to each widget, in order, the calls that name it.
OpsNaming(ops, key) == SelectSeq(ops, LAMBDA o : o.key = key)

StoreOf(w, key) == IF key \in DOMAIN w THEN key :> w[key] ELSE <<>>

\* The keys a declaration pass hands to build_widget.
Built(ops) ==
    {ops[i].key : i \in {j \in DOMAIN ops : ops[j].op = "build_widget"}}

ApplyOps(w, ops) ==
    [k \in DOMAIN w \cup Built(ops) |->
        ApplyInOrder(StoreOf(w, k), OpsNaming(ops, k))[k]]

RECURSIVE Flatten(_)
Flatten(seqs) ==
    IF seqs = <<>> THEN <<>> ELSE Head(seqs) \o Flatten(Tail(seqs))

(***************************************************************************)
(* UI components, components.rs:53-191.  Each yields the declaration       *)
(* calls it makes, in order; w is the store it declares into, read for     *)
(* the reaction build_widget returns.                                      *)
(***************************************************************************)
ButtonFlags == {"CAN_FOCUS", "CAN_HOVER", "CAN_CLICK"}

\* UiContext::btn_icon, components.rs:54-71
btn_icon(w, props, sprite_props, hover_color) ==
    <<OpBuild(WithFlags(props,
                  props.flags \cup ButtonFlags \cup {"DRAW_BACKGROUND"})),
      OpBuild(sprite_props),
      OpAddChild(props.key, sprite_props.key)>>
    \o (IF ReactionOf(w, props.key).hovered
        THEN <<OpMut(props.key, "color", hover_color)>>
        ELSE <<>>)

\* UiContext::btn_box, components.rs:73-100
HoveredLook(reaction) == reaction.hovered

PressedLook(reaction) == reaction.pressed /\ reaction.hovered

btn_box(w, props, normal_nss, hover_nss, child_id) ==
    <<OpBuild(WithSprite(WithFlags(props, ButtonFlags \cup {"DRAW_SPRITE"}),
                         normal_nss)),
      OpAddChild(props.key, child_id)>>
    \o (IF PressedLook(ReactionOf(w, props.key))
        THEN <<OpMut(props.key, "sprite", hover_nss),
               OpMut(props.key, "draw_offset", pos(1, 1)),
               OpMut(child_id, "draw_offset", pos(1, 1))>>
        ELSE <<>>)

\* UiContext::big_3digits_display, components.rs:102-133
Digits3(n) == <<(n \div 100) % 10, (n \div 10) % 10, n % 10>>

DigitOrUnits(ds, j) == j = 3 \/ \E i \in 1..j : ds[i] > 0

DigitShown(ds, j) == \E i \in 1..j : ds[i] > 0

big_3digits_display(key, n) ==
    LET ds == Digits3(n)
        holder(j) == wkp(key, CompSite(120), <<3 - j>>)
        digit(j) == wkp(key, CompSite(123), <<3 - j>>)
        place(j) ==
            <<OpBuild(PropsSprite(holder(j), Sprite("bignum_placeholder")))>>
            \o (IF DigitShown(ds, j)
                THEN <<OpBuild(PropsSprite(digit(j),
                                   DigitSprite("bignums", ds[j]))),
                       OpAddChild(holder(j), digit(j))>>
                ELSE <<>>)
            \o <<OpAddChild(key, holder(j))>>
    IN  <<OpBuild(PropsSprite(key, Sprite("box_num_display")))>>
        \o place(1) \o place(2) \o place(3)

\* components.rs:155-156
BRIGHT_GREEN == Color(\hff99, \he550)

DIMMED_GREEN == Color(\hff64, \ha328)

\* UiContext::time_display, components.rs:135-190 (time in milliseconds)
time_display(key, time) ==
    LET secs == time \div 1000
        minutes == (secs \div 60) % 60
        seconds == secs % 60
        millis == time % 1000
        digit(site, i, d, mask) ==
            <<OpBuild(WithMaskAnd(
                          PropsSprite(wkp(key, CompSite(site), <<i>>),
                                      DigitSprite("nums", d)), Some(mask))),
              OpAddChild(key, wkp(key, CompSite(site), <<i>>))>>
        colon(site, mask) ==
            <<OpBuild(WithMaskAnd(
                          PropsSprite(wkp(key, CompSite(site), <<>>),
                                      Sprite("num_colon")), Some(mask))),
              OpAddChild(key, wkp(key, CompSite(site), <<>>))>>
    IN  <<OpBuild(PropsSprite(key, Sprite("box_num_display")))>>
        \o digit(160, 1, (minutes \div 10) % 10, BRIGHT_GREEN)
        \o digit(160, 0, minutes % 10, BRIGHT_GREEN)
        \o colon(166, BRIGHT_GREEN)
        \o digit(172, 1, (seconds \div 10) % 10, BRIGHT_GREEN)
        \o digit(172, 0, seconds % 10, BRIGHT_GREEN)
        \o colon(178, DIMMED_GREEN)
        \o digit(184, 2, (millis \div 100) % 10, DIMMED_GREEN)
        \o digit(184, 1, (millis \div 10) % 10, DIMMED_GREEN)
        \o digit(184, 0, millis % 10, DIMMED_GREEN)

(***************************************************************************)
(* The SnakeGame as the game loop sees it: is_dead(), ate_banana(),        *)
(* bananas_eaten(), and what slot_at() reports per cell.  The playfield    *)
(* is PlayfieldW x PlayfieldH cells (11 x 11 in main.rs:84).               *)
(***************************************************************************)
PlayfieldW == 2

PlayfieldH == 1

MaxEaten == 1

\* Cells in the order draw_snake_game visits them (main.rs:375-377).
Cells ==
    [i \in 1..(PlayfieldW * PlayfieldH) |->
        <<(i - 1) % PlayfieldW, (i - 1) \div PlayfieldW>>]

\* The cells a banana may lie on, and the cell the snake lies on.
BananaSpots == {<<0, 0>>, <<1, 0>>}

\* The banana placements considered: none, one banana, two bananas.
BananaLayouts == {{}, {<<1, 0>>}, BananaSpots}

SnakeSpots == {<<0, 0>>}

\* SnakeGame::new / SnakeGame::restart
NewGame ==
    [dead |-> FALSE, ate_banana |-> FALSE, bananas_eaten |-> 0,
     bananas |-> {}, snake |-> SnakeSpots, duration |-> 0]

restart(game) == NewGame

\* SnakeGame::update_duration(): the playing time grows by the time that
\* has passed since it was last brought up to date (milliseconds).
update_duration(game, elapsed) ==
    [game EXCEPT !.duration = game.duration + elapsed]

\* The times a frame may take that are considered: under a millisecond,
\* and a long pause (the time display then reads 09:59:999).
ElapsedMs == {0, 599999}

\* The playing time up to which frames are followed.
MaxDuration == 599999

\* The outcomes of SnakeGame::update(): a dead snake stays as it is; a
\* live one dies, or moves (bananas may appear and disappear, and one may
\* be eaten).
UpdateOutcomes(game) ==
    IF game.dead
    THEN {game}
    ELSE {[game EXCEPT !.dead = TRUE]}
         \cup {[game EXCEPT !.bananas = bs, !.ate_banana = FALSE] :
                   bs \in BananaLayouts}
         \cup {[game EXCEPT !.bananas = bs, !.ate_banana = TRUE,
                            !.bananas_eaten = game.bananas_eaten + 1] :
                   bs \in {b \in BananaLayouts :
                               game.bananas_eaten < MaxEaten}}

(***************************************************************************)
(* draw_snake_game, main.rs:364-572.  Yields the declaration calls and     *)
(* the value it leaves in *show_game_over.                                 *)
(***************************************************************************)
snake_container_key == wk(MainSite(311), <<>>)

holder_key(cell) == wk(MainSite(381), cell)

banana_key == wk(MainSite(403), <<>>)

snake_sprite_key(cell) == wk(MainSite(455), cell)

dir_next_key(cell) == wk(MainSite(473), cell)

dir_prev_key(cell) == wk(MainSite(491), cell)

tongue_holder_key == wk(MainSite(517), <<>>)

tongue_key == wk(MainSite(523), <<>>)

overlay_key == wk(MainSite(534), <<>>)

column_key == wk(MainSite(541), <<>>)

game_over_text_key == wk(MainSite(547), <<>>)

oh_text_key == wk(MainSite(551), <<>>)

oh_btn_key == wk(MainSite(554), <<>>)

\* main.rs:377-501, one cell of the grid
CellOps(game, dbg, cell) ==
    <<OpBuild(IF dbg
              THEN WithFlags(PropsNew(holder_key(cell)), {"DRAW_BORDER"})
              ELSE PropsNew(holder_key(cell)))>>
    \o (IF cell \in game.bananas
        THEN <<OpBuild(PropsSprite(banana_key, Sprite("banana"))),
               OpAddChild(holder_key(cell), banana_key)>>
        ELSE <<>>)
    \o (IF cell \in game.snake
        THEN <<OpBuild(PropsSprite(snake_sprite_key(cell), Sprite("snake"))),
               OpAddChild(holder_key(cell), snake_sprite_key(cell))>>
        ELSE <<>>)
    \o (IF dbg
        THEN <<OpBuild(WithColor(WithFlags(PropsNew(dir_next_key(cell)),
                                           {"DRAW_BACKGROUND"}),
                                 Color(\hff11, \h6611))),
               OpAddChild(holder_key(cell), dir_next_key(cell)),
               OpBuild(WithColor(WithFlags(PropsNew(dir_prev_key(cell)),
                                           {"DRAW_BACKGROUND"}),
                                 Color(\hff66, \h1111))),
               OpAddChild(holder_key(cell), dir_prev_key(cell))>>
        ELSE <<>>)
    \o <<OpAddChild(snake_container_key, holder_key(cell))>>

\* main.rs:505-530
TongueOps(game) ==
    IF game.ate_banana
    THEN <<OpBuild(PropsNew(tongue_holder_key)),
           OpBuild(PropsSprite(tongue_key, Sprite("snake_tongue"))),
           OpAddChild(tongue_holder_key, tongue_key),
           OpAddChild(snake_container_key, tongue_holder_key)>>
    ELSE <<>>

\* main.rs:532-571
OverlayOps(w, sgo) ==
    IF sgo
    THEN <<OpBuild(WithColor(
                       WithFlags(PropsNew(overlay_key), {"DRAW_BACKGROUND"}),
                       from_hex(And32(<<\h80ff, \hffff>>,
                                      to_u32(SNAEK_BLACK))))),
           OpBuild(PropsNew(column_key)),
           OpBuild(PropsText(game_over_text_key)),
           OpAddChild(column_key, game_over_text_key),
           OpBuild(WithMaskAnd(PropsText(oh_text_key), Some(SNAEK_BLACK)))>>
         \o btn_box(w, PropsNew(oh_btn_key), Sprite("box_embossed"),
                    Sprite("box_carved"), oh_text_key)
         \o <<OpAddChild(column_key, oh_btn_key),
              OpAddChild(overlay_key, column_key),
              OpAddChild(snake_container_key, overlay_key)>>
    ELSE <<>>

\* main.rs:564-566
AfterOh(w, sgo) ==
    IF sgo /\ ReactionOf(w, oh_btn_key).clicked THEN FALSE ELSE sgo

draw_snake_game(w, game, dbg, sgo) ==
    [ops |-> Flatten([i \in DOMAIN Cells |-> CellOps(game, dbg, Cells[i])])
                 \o TongueOps(game) \o OverlayOps(w, sgo),
     show_game_over |-> AfterOh(w, sgo)]

(***************************************************************************)
(* The declaration pass of one frame, main.rs:122-332.                     *)
(***************************************************************************)
window_frame_key == wk(MainSite(127), <<>>)

navbar_key == wk(MainSite(139), <<>>)

snaek_icon_key == wk(MainSite(146), <<>>)

filler_key == wk(MainSite(154), <<>>)

title_key == wk(MainSite(160), <<>>)

btn_close_key == wk(MainSite(169), <<>>)

icon_close_key == wk(MainSite(170), <<>>)

game_frame_key == wk(MainSite(195), <<>>)

display_frame_key == wk(MainSite(203), <<>>)

big_display_key == wk(MainSite(209), <<>>)

middle_frame_key == wk(MainSite(219), <<>>)

icon_restart_key == wk(MainSite(225), <<>>)

btn_restart_key == wk(MainSite(230), <<>>)

icon_playpause_key == wk(MainSite(252), <<>>)

btn_playdebug_key == wk(MainSite(258), <<>>)

right_frame_key == wk(MainSite(274), <<>>)

text_holder_key == wk(MainSite(279), <<>>)

text_key == wk(MainSite(282), <<>>)

time_display_key == wk(MainSite(291), <<>>)

playfield_key == wk(MainSite(305), <<>>)

\* main.rs:126-174: the window frame and the navbar down to btn_close
NavbarOps(w) ==
    <<OpBuild(WithColor(WithFlags(PropsNew(window_frame_key),
                                  {"DRAW_BACKGROUND", "DRAW_BORDER"}),
                        Color(\hffc0, \hcbdc))),
      OpBuild(WithFlags(PropsNew(navbar_key), {"CAN_CLICK"})),
      OpBuild(WithDrawOffset(PropsSprite(snaek_icon_key,
                                         Sprite("snaek_icon")),
                             pos(1, 1))),
      OpAddChild(navbar_key, snaek_icon_key),
      OpBuild(PropsNew(filler_key)),
      OpBuild(WithMaskAnd(PropsText(title_key), Some(SNAEK_BLACK))),
      OpAddChild(filler_key, title_key),
      OpAddChild(navbar_key, filler_key)>>
    \o btn_icon(w, PropsNew(btn_close_key),
                WithMaskAnd(PropsSprite(icon_close_key, Sprite("icon_close")),
                            Some(SNAEK_BLACK)),
                Color(\hffe4, \h3b44))
    \o <<OpAddChild(navbar_key, btn_close_key)>>

\* main.rs:239-243
AfterRestart(reaction, game, sgo) ==
    IF reaction.clicked
    THEN [game |-> restart(game), show_game_over |-> FALSE]
    ELSE [game |-> game, show_game_over |-> sgo]

\* main.rs:267-269
ToggleDebug(reaction, dbg) == IF reaction.clicked THEN ~dbg ELSE dbg

\* main.rs:194-300: the display frame above the playfield.  game is the
\* SnakeGame the pass starts with, restarted the one main.rs:239-243 leaves:
\* the banana counter is declared before the restart click is handled, the
\* time display after it.
DisplayOps(w, game, restarted, dbg) ==
    <<OpBuild(PropsSprite(game_frame_key, Sprite("box_embossed"))),
      OpBuild(PropsNew(display_frame_key))>>
    \o big_3digits_display(big_display_key, game.bananas_eaten)
    \o <<OpAddChild(display_frame_key, big_display_key),
         OpBuild(PropsNew(middle_frame_key)),
         OpBuild(PropsSprite(icon_restart_key, Sprite("icon_restart")))>>
    \o btn_box(w, PropsNew(btn_restart_key), Sprite("box_embossed"),
               Sprite("box_carved"), icon_restart_key)
    \o <<OpAddChild(middle_frame_key, btn_restart_key),
         OpBuild(PropsSprite(icon_playpause_key,
                     IF dbg THEN Sprite("icon_play")
                            ELSE Sprite("icon_debug")))>>
    \o btn_box(w, PropsNew(btn_playdebug_key), Sprite("box_embossed"),
               Sprite("box_carved"), icon_playpause_key)
    \o <<OpAddChild(middle_frame_key, btn_playdebug_key),
         OpAddChild(display_frame_key, middle_frame_key),
         OpBuild(PropsNew(right_frame_key)),
         OpBuild(PropsNew(text_holder_key)),
         OpBuild(WithMaskAnd(PropsText(text_key), Some(SNAEK_BLACK))),
         OpAddChild(text_holder_key, text_key),
         OpAddChild(right_frame_key, text_holder_key)>>
    \o time_display(time_display_key, restarted.duration)
    \o <<OpAddChild(right_frame_key, time_display_key),
         OpAddChild(display_frame_key, right_frame_key),
         OpAddChild(game_frame_key, display_frame_key)>>

\* The whole pass.  btn_close.clicked() leaves the game loop at
\* main.rs:176-178, before anything else is declared.  The restart click
\* is handled before the debug icon is built, the debug toggle before the
\* grid is declared, so the grid sees the values they leave.
DeclarePass(w, game, dbg, sgo) ==
    LET closed == ReactionOf(w, btn_close_key).clicked
        r == AfterRestart(ReactionOf(w, btn_restart_key), game, sgo)
        dbg1 == ToggleDebug(ReactionOf(w, btn_playdebug_key), dbg)
        dsg == draw_snake_game(w, r.game, dbg1, r.show_game_over)
    IN  IF closed
        THEN [ops |-> NavbarOps(w), closed |-> TRUE, game |-> game,
              debug |-> dbg, show_game_over |-> sgo]
        ELSE [ops |-> NavbarOps(w)
                      \o <<OpAddChild(window_frame_key, navbar_key)>>
                      \o DisplayOps(w, game, r.game, dbg)
                      \o <<OpBuild(PropsSprite(playfield_key,
                                       Sprite("box_playfield"))),
                           OpBuild(WithColor(
                                       WithFlags(PropsNew(snake_container_key),
                                                 {"DRAW_BACKGROUND"}),
                                       Color(\hff26, \h2b44)))>>
                      \o dsg.ops
                      \o <<OpAddChild(playfield_key, snake_container_key),
                           OpAddChild(game_frame_key, playfield_key),
                           OpAddChild(window_frame_key, game_frame_key)>>,
              closed |-> FALSE, game |-> r.game, debug |-> dbg1,
              show_game_over |-> dsg.show_game_over]

(***************************************************************************)
(* The rest of the frame: solve_layout, draw_widgets,                      *)
(* free_untouched_widgets, react (main.rs:333-336).  Layout is not         *)
(* modelled: the pointer position is the region of the window it is in,    *)
(* and the hit test finds the widget laid out there if the store holds it. *)
(***************************************************************************)
Regions == {"none", "btn_close", "btn_restart", "btn_playdebug", "oh_btn"}

RegionKey(region) ==
    CASE region = "btn_close" -> btn_close_key
      [] region = "btn_restart" -> btn_restart_key
      [] region = "btn_playdebug" -> btn_playdebug_key
      [] region = "oh_btn" -> oh_btn_key
      [] OTHER -> NoKey

HitTest(w, region) ==
    LET k == RegionKey(region)
    IN  IF k \in DOMAIN w
           /\ w[k].props.flags \cap {"CAN_HOVER", "CAN_CLICK"} # {}
        THEN k
        ELSE NoKey

\* react(mouse): hovered is the hit widget; pressed starts when the button
\* goes down over the widget and lasts until the button is released;
\* clicked is true in the frame the button is released on a pressed widget;
\* a click moves the focus to the clicked widget.
ReactWidget(wd, key, hit, down, was_down) ==
    [hovered |-> key = hit /\ "CAN_HOVER" \in wd.props.flags,
     pressed |-> /\ "CAN_CLICK" \in wd.props.flags
                 /\ down
                 /\ (wd.reaction.pressed \/ (key = hit /\ ~was_down)),
     clicked |-> /\ "CAN_CLICK" \in wd.props.flags
                 /\ ~down
                 /\ was_down
                 /\ wd.reaction.pressed,
     focused |-> wd.reaction.focused]

react(w, m) ==
    LET hit == HitTest(w, m.at)
        r == [k \in DOMAIN w |->
                 ReactWidget(w[k], k, hit, m.l_pressed[1], m.l_pressed[2])]
        takes(k) == r[k].clicked /\ "CAN_FOCUS" \in w[k].props.flags
        moved == \E k \in DOMAIN w : takes(k)
    IN  [k \in DOMAIN w |->
            [w[k] EXCEPT !.reaction =
                [r[k] EXCEPT !.focused =
                    IF moved THEN takes(k) ELSE r[k].focused]]]

\* draw_widgets(&mut draw_cmds): one command per drawing flag of every
\* widget reached from the window frame, children in insertion order.
WidgetCommands(wd) ==
    (IF "DRAW_BACKGROUND" \in wd.props.flags THEN <<"Rect">> ELSE <<>>)
    \o (IF "DRAW_SPRITE" \in wd.props.flags THEN <<"Sprite">> ELSE <<>>)
    \o (IF "DRAW_TEXT" \in wd.props.flags THEN <<"Text">> ELSE <<>>)
    \o (IF "DRAW_BORDER" \in wd.props.flags THEN <<"Border">> ELSE <<>>)

RECURSIVE DrawTree(_, _)
DrawTree(w, key) ==
    IF key \notin DOMAIN w
    THEN <<>>
    ELSE WidgetCommands(w[key])
         \o Flatten([i \in DOMAIN w[key].children |->
                        DrawTree(w, w[key].children[i])])

draw_widgets(w, cmds) == cmds \o DrawTree(w, window_frame_key)

(***************************************************************************)
(* The game loop, main.rs:96-358.                                          *)
(***************************************************************************)
TickFrames == 2

\* What game() does next: the declaration pass is followed by the four
\* calls of main.rs:333-336 in the order they are written, then by the
\* game tick.
StageAfterDrawFirst(stage) ==
    CASE stage = "declare" -> "draw"
      [] stage = "draw" -> "solve"
      [] stage = "solve" -> "free"
      [] stage = "free" -> "react"
      [] stage = "react" -> "update"
      [] stage = "update" -> "declare"

StageAfterReactFirst(stage) ==
    CASE stage = "declare" -> "solve"
      [] stage = "solve" -> "draw"
      [] stage = "draw" -> "react"
      [] stage = "react" -> "free"
      [] stage = "free" -> "update"
      [] stage = "update" -> "declare"

StageAfter(stage) ==
    CASE stage = "declare" -> "solve"
      [] stage = "solve" -> "draw"
      [] stage = "draw" -> "free"
      [] stage = "free" -> "react"
      [] stage = "react" -> "update"
      [] stage = "update" -> "declare"

\* main.rs:107-109
SampleStale(down, pair) == <<down, pair[2]>>

SampleSwapped(down, pair) == <<pair[1], down>>

SampleButton(down, pair) == <<down, pair[1]>>

\* The calls of a declaration pass, as the log keeps them: build_widget
\* and add_child by name (widget_mut is no call of the declaration API).
Logged(ops) ==
    LET api == SelectSeq(ops, LAMBDA o : o.op # "widget_mut")
    IN  [i \in DOMAIN api |-> api[i].op]

\* The keys a declaration pass hands to build_widget more than once.
BuiltTwice(ops) ==
    {k \in Built(ops) :
        \E i, j \in {h \in DOMAIN ops : ops[h].key = k} :
            i < j /\ ops[i].op = "build_widget" /\ ops[j].op = "build_widget"}

\* The samples the window may report next.  The pointer leaves a button
\* for the area between the buttons before it reaches another one, and it
\* enters a button only while the left button is up.
\* Here the right and the middle button stay up.
Samples(m) ==
    {s \in [at : Regions, down : BOOLEAN, r_down : {FALSE},
            m_down : {FALSE}] :
        /\ m.at # "none" => s.at \in {m.at, "none"}
        /\ m.l_pressed[1] => s.at \in {m.at, "none"}}

\* The samples with the pointer off the buttons and the three mouse
\* buttons in any state.
ButtonSamples ==
    [at : {"none"}, down : BOOLEAN, r_down : BOOLEAN, m_down : BOOLEAN]

\* How a new sample continues a press over btn_playdebug: "up" and "down"
\* while the pointer rests on the button, "rel" on the sample that ends a
\* press begun there, "idle" otherwise.
NextRun(run, was_down, at, down) ==
    IF at # "btn_playdebug" THEN "idle"
    ELSE IF down
         THEN (IF run \in {"up", "down", "rel"} THEN "down" ELSE "idle")
         ELSE (IF run = "down" THEN "rel"
               ELSE IF run = "idle" /\ was_down THEN "idle"
               ELSE "up")

GameInit ==
    /\ pc = "declare"
    /\ mouse = [at |-> "none", l_pressed |-> <<FALSE, FALSE>>,
                r_pressed |-> <<FALSE, FALSE>>,
                m_pressed |-> <<FALSE, FALSE>>]
    /\ widgets = <<>>
    /\ draw_cmds = <<>>
    /\ debug = FALSE
    /\ show_game_over = FALSE
    /\ snake_game = NewGame
    /\ frame_count = 0
    /\ calls = <<>>
    /\ built_twice = {}
    /\ declared = {}
    /\ last_left = FALSE
    /\ last_other = <<FALSE, FALSE>>
    /\ pd_run = "idle"

\* main.rs:96-100: the window was closed or Escape is down
Quit ==
    /\ pc = "declare"
    /\ pc' = "exited"
    /\ UNCHANGED <<mouse, widgets, draw_cmds, debug, show_game_over,
                   snake_game, frame_count, calls, built_twice, declared,
                   last_left, last_other, pd_run>>

\* main.rs:102-332: input sampling and the declaration pass, for a set of
\* samples the window may report
DeclareWith(samples) ==
    /\ pc = "declare"
    /\ \E d \in {DeclarePass(widgets, snake_game, debug, show_game_over)} :
           /\ widgets' = ApplyOps(widgets, d.ops)
           /\ calls' = Logged(d.ops)
           /\ built_twice' = BuiltTwice(d.ops)
           /\ declared' = Built(d.ops)
           /\ snake_game' = d.game
           /\ debug' = d.debug
           /\ show_game_over' = d.show_game_over
           /\ pc' = IF d.closed THEN "exited" ELSE StageAfter(pc)
    /\ draw_cmds' = <<"Clear">>
    /\ \E s \in samples :
          /\ mouse' = [at |-> s.at,
                       l_pressed |-> SampleButton(s.down, mouse.l_pressed),
                       r_pressed |-> SampleButton(s.r_down, mouse.r_pressed),
                       m_pressed |-> SampleButton(s.m_down, mouse.m_pressed)]
          /\ last_left' = s.down
          /\ last_other' = <<s.r_down, s.m_down>>
          /\ pd_run' = NextRun(pd_run, last_left, s.at, s.down)
    /\ UNCHANGED frame_count

Declare == DeclareWith(Samples(mouse))

DeclareAnyButtons == DeclareWith(ButtonSamples)

\* main.rs:333
SolveLayout ==
    /\ pc = "solve"
    /\ calls' = Append(calls, "solve_layout")
    /\ pc' = StageAfter(pc)
    /\ UNCHANGED <<mouse, widgets, draw_cmds, debug, show_game_over,
                   snake_game, frame_count, built_twice, declared,
                   last_left, last_other, pd_run>>

\* main.rs:334
DrawWidgets ==
    /\ pc = "draw"
    /\ draw_cmds' = draw_widgets(widgets, draw_cmds)
    /\ calls' = Append(calls, "draw_widgets")
    /\ pc' = StageAfter(pc)
    /\ UNCHANGED <<mouse, widgets, debug, show_game_over, snake_game,
                   frame_count, built_twice, declared, last_left,
                   last_other, pd_run>>

\* main.rs:335
FreeNothing ==
    /\ pc = "free"
    /\ calls' = Append(calls, "free_untouched_widgets")
    /\ pc' = StageAfter(pc)
    /\ UNCHANGED <<mouse, widgets, draw_cmds, debug, show_game_over,
                   snake_game, frame_count, built_twice, declared,
                   last_left, last_other, pd_run>>

FreeUntouchedWidgets ==
    /\ pc = "free"
    /\ widgets' = FreeUntouched(widgets)
    /\ calls' = Append(calls, "free_untouched_widgets")
    /\ pc' = StageAfter(pc)
    /\ UNCHANGED <<mouse, draw_cmds, debug, show_game_over, snake_game,
                   frame_count, built_twice, declared, last_left,
                   last_other, pd_run>>

\* main.rs:336
React ==
    /\ pc = "react"
    /\ widgets' = react(widgets, mouse)
    /\ calls' = Append(calls, "react")
    /\ pc' = StageAfter(pc)
    /\ UNCHANGED <<mouse, draw_cmds, debug, show_game_over, snake_game,
                   frame_count, built_twice, declared, last_left,
                   last_other, pd_run>>

\* main.rs:338-357: the playing time, the game tick and the end of the
\* frame
EveryFrame(n) == TRUE

IsTick(n) == n % TickFrames = 0

Update ==
    /\ pc = "update"
    /\ \E elapsed \in ElapsedMs :
          /\ snake_game.duration + elapsed <= MaxDuration
          /\ \E timed \in {update_duration(snake_game, elapsed)} :
                IF IsTick(frame_count)
                THEN \E g \in UpdateOutcomes(timed) :
                       /\ snake_game' = g
                       /\ show_game_over' =
                              IF g.dead /\ ~timed.dead THEN TRUE
                              ELSE show_game_over
                ELSE /\ snake_game' = timed
                     /\ UNCHANGED show_game_over
    /\ frame_count' = (frame_count + 1) % TickFrames
    /\ pc' = StageAfter(pc)
    /\ UNCHANGED <<mouse, widgets, draw_cmds, debug, calls, built_twice,
                   declared,
                   last_left, last_other, pd_run>>

PixelIdle ==
    /\ pixa = Pixel(0, 0, 0, 0)
    /\ pixb = pixa
    /\ pixres = NoResult
    /\ img = NoImage
    /\ bitmap = NoBitmap

Init == GameInit /\ PixelIdle

Next ==
    \/ (Quit /\ UNCHANGED pixvars)
    \/ (Declare /\ UNCHANGED pixvars)
    \/ (SolveLayout /\ UNCHANGED pixvars)
    \/ (DrawWidgets /\ UNCHANGED pixvars)
    \/ (FreeUntouchedWidgets /\ UNCHANGED pixvars)
    \/ (React /\ UNCHANGED pixvars)
    \/ (Update /\ UNCHANGED pixvars)

Spec == Init /\ [][Next]_vars

\* The game loop with every combination of the three mouse buttons.
InputNext ==
    \/ (Quit /\ UNCHANGED pixvars)
    \/ (DeclareAnyButtons /\ UNCHANGED pixvars)
    \/ (SolveLayout /\ UNCHANGED pixvars)
    \/ (DrawWidgets /\ UNCHANGED pixvars)
    \/ (FreeUntouchedWidgets /\ UNCHANGED pixvars)
    \/ (React /\ UNCHANGED pixvars)
    \/ (Update /\ UNCHANGED pixvars)

InputSpec == Init /\ [][InputNext]_vars

(***************************************************************************)
(* The arithmetic operators of Pixel (pixel.rs:47-99) use the plain        *)
(* +=, -= and *= of u8.  When a channel leaves 0..255 a build with         *)
(* overflow checks panics and a build without them wraps modulo 256.       *)
(***************************************************************************)
Overflows(x) == x < 0 \/ x > U8_MAX

ArithOutcomes(op, a, r, g, b) ==
    IF Overflows(a) \/ Overflows(r) \/ Overflows(g) \/ Overflows(b)
    THEN {Panicked(op),
          Returned(op, Pixel(AsU8(a), AsU8(r), AsU8(g), AsU8(b)))}
    ELSE {Returned(op, Pixel(a, r, g, b))}

\* impl Add for Pixel, pixel.rs:47-57
PixelAdd(pa, pb) ==
    ArithOutcomes("Add", pa.a + pb.a, pa.r + pb.r, pa.g + pb.g, pa.b + pb.b)

\* impl Sub for Pixel, pixel.rs:65-75
PixelSub(pa, pb) ==
    ArithOutcomes("Sub", pa.a - pb.a, pa.r - pb.r, pa.g - pb.g, pa.b - pb.b)

\* impl Mul<u8> for Pixel, pixel.rs:83-93
PixelMul(pa, rhs) ==
    ArithOutcomes("Mul", pa.a * rhs, pa.r * rhs, pa.g * rhs, pa.b * rhs)

PixelInit ==
    /\ pixa \in Pixels
    /\ pixb \in Pixels
    /\ pixres = NoResult
    /\ img = NoImage
    /\ bitmap = NoBitmap
    /\ GameInit

ApplyOver ==
    /\ pixres.op = "none"
    /\ pixres' = over(pixa, pixb)
    /\ UNCHANGED <<pixa, pixb, img, bitmap>>
    /\ UNCHANGED gamevars

ApplyAdd ==
    /\ pixres.op = "none"
    /\ pixres' = add(pixa, pixb)
    /\ UNCHANGED <<pixa, pixb, img, bitmap>>
    /\ UNCHANGED gamevars

ApplyPixelAdd ==
    /\ pixres.op = "none"
    /\ pixres' \in PixelAdd(pixa, pixb)
    /\ UNCHANGED <<pixa, pixb, img, bitmap>>
    /\ UNCHANGED gamevars

ApplyPixelSub ==
    /\ pixres.op = "none"
    /\ pixres' \in PixelSub(pixa, pixb)
    /\ UNCHANGED <<pixa, pixb, img, bitmap>>
    /\ UNCHANGED gamevars

\* The u8 factor is the alpha channel of the second operand.
ApplyPixelMul ==
    /\ pixres.op = "none"
    /\ pixres' \in PixelMul(pixa, pixb.a)
    /\ UNCHANGED <<pixa, pixb, img, bitmap>>
    /\ UNCHANGED gamevars

PixelNext ==
    \/ ApplyOver
    \/ ApplyAdd
    \/ ApplyPixelAdd
    \/ ApplyPixelSub
    \/ ApplyPixelMul

PixelSpec == PixelInit /\ [][PixelNext]_vars

\* The banana counter alone: big_3digits_display as game() calls it at
\* main.rs:208-216, for every count up to MaxShown.
MaxShown == 1200

DisplayInit ==
    /\ pc = "declare"
    /\ mouse = [at |-> "none", l_pressed |-> <<FALSE, FALSE>>,
                r_pressed |-> <<FALSE, FALSE>>,
                m_pressed |-> <<FALSE, FALSE>>]
    /\ widgets = <<>>
    /\ draw_cmds = <<>>
    /\ debug = FALSE
    /\ show_game_over = FALSE
    /\ \E n \in 0..MaxShown :
          snake_game = [NewGame EXCEPT !.bananas_eaten = n]
    /\ frame_count = 0
    /\ calls = <<>>
    /\ built_twice = {}
    /\ declared = {}
    /\ last_left = FALSE
    /\ last_other = <<FALSE, FALSE>>
    /\ pd_run = "idle"
    /\ PixelIdle

DeclareBigDisplay ==
    /\ pc = "declare"
    /\ \E ops \in {big_3digits_display(big_display_key,
                                      snake_game.bananas_eaten)} :
          /\ widgets' = ApplyOps(widgets, ops)
          /\ calls' = Logged(ops)
          /\ built_twice' = BuiltTwice(ops)
          /\ declared' = Built(ops)
    /\ pc' = "shown"
    /\ UNCHANGED <<mouse, draw_cmds, debug, show_game_over, snake_game,
                   frame_count, last_left, last_other, pd_run>>
    /\ UNCHANGED pixvars

DisplayNext == DeclareBigDisplay

DisplaySpec == DisplayInit /\ [][DisplayNext]_vars

\* Loading of the assets: a decoded image is turned into a Bitmap.
BitmapInit ==
    /\ img \in Images
    /\ bitmap = NoBitmap
    /\ pixa = Pixel(0, 0, 0, 0)
    /\ pixb = pixa
    /\ pixres = NoResult
    /\ GameInit

LoadPng ==
    /\ bitmap.op = "none"
    /\ bitmap' = load_png_from_memory(img)
    /\ UNCHANGED <<pixa, pixb, pixres, img>>
    /\ UNCHANGED gamevars

BitmapNext == LoadPng

BitmapSpec == BitmapInit /\ [][BitmapNext]_vars

(***************************************************************************)
(* Claims about the colour functions (checked under PixelSpec).            *)
(***************************************************************************)

\* C7: over(A, B) equals A when B is fully transparent and equals B when A
\* is fully transparent.
C7_OverTransparentIdentity ==
    pixres.op = "over" =>
        /\ pixb.a = 0 => (~pixres.panic /\ pixres.px = pixa)
        /\ pixa.a = 0 => (~pixres.panic /\ pixres.px = pixb)

\* C8: over(A, B) with both alphas zero does not divide by zero and returns
\* a fully transparent colour.
C8_OverBothTransparentSpecialCased ==
    (pixres.op = "over" /\ pixa.a = 0 /\ pixb.a = 0) =>
        (~pixres.panic /\ pixres.px.a = 0)

\* C9: over(A, B) fails only when both alphas are zero; for every other
\* pair of alphas the truncated result alpha is non-zero.
C9_OverFailsOnlyWhenBothZero ==
    pixres.op = "over" =>
        /\ pixres.panic => (pixa.a = 0 /\ pixb.a = 0)
        /\ ~(pixa.a = 0 /\ pixb.a = 0) => OverAlpha(pixa, pixb) # 0

\* C10: every channel of add(A, B) is min(255, A.c + B.c); hence it is at
\* least max(A.c, B.c), and add is commutative.
C10_AddSaturates ==
    pixres.op = "add" =>
        /\ ~pixres.panic
        /\ pixres.px.a = Min(U8_MAX, pixa.a + pixb.a)
        /\ pixres.px.r = Min(U8_MAX, pixa.r + pixb.r)
        /\ pixres.px.g = Min(U8_MAX, pixa.g + pixb.g)
        /\ pixres.px.b = Min(U8_MAX, pixa.b + pixb.b)
        /\ pixres.px.a >= Max(pixa.a, pixb.a)
        /\ pixres.px.r >= Max(pixa.r, pixb.r)
        /\ pixres.px.g >= Max(pixa.g, pixb.g)
        /\ pixres.px.b >= Max(pixa.b, pixb.b)
        /\ pixres = add(pixb, pixa)

\* C10 witness: add was applied to two different pixels, one channel
\* saturating (sum above 255) and another not.
C10_Witness ==
    /\ pixres.op = "add"
    /\ pixa # pixb
    /\ pixa.a + pixb.a > U8_MAX
    /\ pixa.r + pixb.r < U8_MAX
    /\ pixa.r + pixb.r > 0

(***************************************************************************)
(* Claims about the frame pipeline and the widget store (checked under     *)
(* Spec).                                                                  *)
(***************************************************************************)
DeclarationCalls == {"build_widget", "add_child"}

FrameCalls ==
    <<"solve_layout", "draw_widgets", "free_untouched_widgets", "react">>

\* How many of the four calls after the declaration pass the frame has
\* made when game() is at the given position.
CallsMade(stage) ==
    CASE stage = "solve" -> 0
      [] stage = "draw" -> 1
      [] stage = "free" -> 2
      [] stage = "react" -> 3
      [] stage = "update" -> 4
      [] OTHER -> IF calls # <<>> /\ calls[Len(calls)] = "react"
                  THEN 4 ELSE 0

\* The position in calls of the only call of that name, 0 if there is none.
CallAt(name) ==
    IF \E i \in DOMAIN calls : calls[i] = name
    THEN CHOOSE i \in DOMAIN calls : calls[i] = name
    ELSE 0

\* C1: in every frame the calls are all the build_widget/add_child
\* declarations, then solve_layout, draw_widgets (appending to the command
\* list), free_untouched_widgets and react, once each and in that order; no
\* declaration follows solve_layout.
C1_FixedCallOrder ==
    LET n == CallsMade(pc)
        decl == Len(calls) - n
    IN  /\ decl >= 0
        /\ \A i \in 1..decl : calls[i] \in DeclarationCalls
        /\ \A i \in 1..n : calls[decl + i] = FrameCalls[i]
        /\ pc \in {"solve", "draw", "free", "react", "update"} => decl > 0
        /\ pc \in {"solve", "draw"} => draw_cmds = <<"Clear">>
        /\ pc \in {"free", "react", "update"} =>
               (Len(draw_cmds) > 1 /\ draw_cmds[1] = "Clear")

\* C1 witness: a frame that declared the game-over overlay has made all
\* four calls.
C1_Witness ==
    /\ pc = "update"
    /\ overlay_key \in declared
    /\ Len(calls) > 4
    /\ calls[Len(calls)] = "react"

\* C2 as stated: react is called before free_untouched_widgets in every
\* frame.
C2_ReactBeforeFree ==
    CallAt("free_untouched_widgets") # 0 =>
        /\ CallAt("react") # 0
        /\ CallAt("react") < CallAt("free_untouched_widgets")

\* C2 amended: the stages of a frame run in the order declare, solve, draw,
\* garbage-collect, react: free_untouched_widgets is called right before
\* react, and a frame makes both calls before the next frame starts.
C2_FreeBeforeReact ==
    [][/\ pc = "free" =>
            /\ calls' = Append(calls, "free_untouched_widgets")
            /\ CallAt("react") = 0
       /\ pc = "react" =>
            /\ calls[Len(calls)] = "free_untouched_widgets"
            /\ calls' = Append(calls, "react")
       /\ pc' = "declare" =>
            /\ pc = "update"
            /\ CallAt("solve_layout") < CallAt("draw_widgets")
            /\ CallAt("draw_widgets") < CallAt("free_untouched_widgets")
            /\ CallAt("free_untouched_widgets") + 1 = CallAt("react")
            /\ CallAt("react") = Len(calls)
       /\ (pc = "declare" /\ pc' # "exited") =>
            (\A i \in DOMAIN calls' : calls'[i] \in DeclarationCalls)]_vars

\* C2 witness: a frame is complete, free_untouched_widgets having freed the
\* overlay before react ran.
C2_Witness ==
    /\ pc = "update"
    /\ snake_game.dead
    /\ overlay_key \notin DOMAIN widgets
    /\ calls[Len(calls)] = "react"
    /\ calls[Len(calls) - 1] = "free_untouched_widgets"

\* C3: when the left button goes up, down, up while the pointer stays over
\* btn_playdebug, react sets clicked on the frame of the release and on no
\* other frame of the sequence, the reaction the next build_widget returns
\* carries it, and debug is toggled in that one declaration pass only.
C3_ClickPulse ==
    [][/\ pc = "react" =>
            /\ pd_run = "rel" =>
                   widgets'[btn_playdebug_key].reaction.clicked
            /\ pd_run \in {"up", "down"} =>
                   ~widgets'[btn_playdebug_key].reaction.clicked
       /\ pc = "update" =>
            /\ pd_run = "rel" =>
                   ReactionOf(widgets', btn_playdebug_key).clicked
            /\ pd_run \in {"up", "down"} =>
                   ~ReactionOf(widgets', btn_playdebug_key).clicked
       /\ (pc = "declare" /\ pc' # "exited") =>
            /\ pd_run = "rel" => debug' = ~debug
            /\ pd_run \in {"up", "down"} => debug' = debug]_vars

\* C3 witness: a second press and release over btn_playdebug ends while
\* debug is on from the first; react has reported the click.
C3_Witness ==
    /\ pc = "update"
    /\ pd_run = "rel"
    /\ debug
    /\ widgets[btn_playdebug_key].reaction.clicked

\* C4: a key declared again in the next frame gets back the reaction react
\* left for it, and its properties are the newly declared ones: btn_icon
\* shows the hover colour and btn_box the pressed sprite and offset exactly
\* in the frames whose build_widget returned hovered, respectively pressed
\* and hovered.
C4_KeyReconciliation ==
    [][(pc = "declare" /\ pc' # "exited") =>
          /\ \A k \in DOMAIN widgets \cap declared' :
                /\ widgets'[k].reaction = widgets[k].reaction
                /\ widgets'[k].props.key = k
          /\ widgets'[btn_close_key].props.color =
                 IF ReactionOf(widgets, btn_close_key).hovered
                 THEN Color(\hffe4, \h3b44) ELSE DefaultColor
          /\ \A b \in {btn_restart_key, btn_playdebug_key, oh_btn_key}
                      \cap declared' :
                LET r == ReactionOf(widgets, b)
                    look == r.pressed /\ r.hovered
                    child == widgets'[b].children[1]
                IN  /\ widgets'[b].props.sprite =
                           IF look THEN Sprite("box_carved")
                           ELSE Sprite("box_embossed")
                    /\ widgets'[b].props.draw_offset =
                           IF look THEN pos(1, 1) ELSE pos(0, 0)
                    /\ widgets'[child].props.draw_offset =
                           IF look THEN pos(1, 1) ELSE pos(0, 0)]_vars

\* C4 witness: btn_playdebug, declared again while pressed and hovered,
\* shows the pressed sprite and offset; btn_restart, clicked in an earlier
\* frame, keeps the focus and shows the pressed sprite no longer.
C4_Witness ==
    /\ pc = "solve"
    /\ widgets[btn_playdebug_key].reaction.pressed
    /\ widgets[btn_playdebug_key].reaction.hovered
    /\ widgets[btn_playdebug_key].props.sprite = Sprite("box_carved")
    /\ widgets[icon_playpause_key].props.draw_offset = pos(1, 1)
    /\ widgets[btn_restart_key].reaction.focused
    /\ widgets[btn_restart_key].props.sprite = Sprite("box_embossed")
    /\ widgets[btn_close_key].props.color = DefaultColor

\* C5: after free_untouched_widgets the store holds exactly the widgets
\* declared in the frame, so a widget of the previous frame that was not
\* declared again is gone with its children; a key declared again after it
\* was freed starts with the default reaction.
C5_GarbageCollection ==
    [][/\ pc = "free" =>
            /\ DOMAIN widgets' = declared
            /\ DOMAIN widgets \ declared =
                   {k \in DOMAIN widgets : ~widgets[k].touched}
       /\ (pc = "declare" /\ pc' # "exited") =>
            \A k \in declared' \ declared :
                widgets'[k].reaction = DefaultReaction]_vars

\* C5 witness: the overlay of an earlier frame, its column, texts and
\* button, and the tongue are gone after free_untouched_widgets while the
\* snake is still dead.
C5_Witness ==
    /\ pc = "react"
    /\ snake_game.dead
    /\ snake_game.bananas_eaten > 0
    /\ {overlay_key, column_key, game_over_text_key, oh_text_key,
        oh_btn_key, tongue_holder_key, tongue_key} \cap DOMAIN widgets = {}
    /\ DOMAIN widgets = declared

\* C6: no two build_widget calls of a frame name the same widget, and no
\* parent has two children of the same key.
C6_UniqueDeclarations ==
    /\ built_twice = {}
    /\ \A k \in DOMAIN widgets :
          \A i, j \in DOMAIN widgets[k].children :
              widgets[k].children[i] = widgets[k].children[j] => i = j

(***************************************************************************)
(* Claims about the arithmetic operators of Pixel (checked under           *)
(* PixelSpec).                                                             *)
(***************************************************************************)

\* C11: Pixel + Pixel, Pixel - Pixel and Pixel * u8 never abort and clamp
\* every channel: the sum at 255, the difference at 0, the product at 255.
C11_ArithmeticSaturates ==
    /\ pixres.op \in {"Add", "Sub", "Mul"} => ~pixres.panic
    /\ pixres.op = "Add" =>
           pixres.px = Pixel(Min(U8_MAX, pixa.a + pixb.a),
                             Min(U8_MAX, pixa.r + pixb.r),
                             Min(U8_MAX, pixa.g + pixb.g),
                             Min(U8_MAX, pixa.b + pixb.b))
    /\ pixres.op = "Sub" =>
           pixres.px = Pixel(Max(0, pixa.a - pixb.a),
                             Max(0, pixa.r - pixb.r),
                             Max(0, pixa.g - pixb.g),
                             Max(0, pixa.b - pixb.b))
    /\ pixres.op = "Mul" =>
           pixres.px = Pixel(Min(U8_MAX, pixa.a * pixb.a),
                             Min(U8_MAX, pixa.r * pixb.a),
                             Min(U8_MAX, pixa.g * pixb.a),
                             Min(U8_MAX, pixa.b * pixb.a))

(***************************************************************************)
(* Claims about the input sampling (checked under InputSpec).              *)
(***************************************************************************)

\* C12: at every call of react the pair of each mouse button is (state
\* sampled this frame, state sampled in the frame before; false in the
\* first frame), so react sees an edge of a button in exactly the frame
\* whose sample differs from the previous one.
C12_ButtonPairs ==
    [][/\ (pc = "declare" /\ pc' = "solve") =>
            /\ mouse'.l_pressed = <<last_left', last_left>>
            /\ mouse'.r_pressed = <<last_other'[1], last_other[1]>>
            /\ mouse'.m_pressed = <<last_other'[2], last_other[2]>>
            /\ calls = <<>> =>
                   /\ mouse'.l_pressed[2] = FALSE
                   /\ mouse'.r_pressed[2] = FALSE
                   /\ mouse'.m_pressed[2] = FALSE
       /\ pc = "react" =>
            /\ mouse' = mouse
            /\ mouse.l_pressed[1] = last_left
            /\ mouse.r_pressed[1] = last_other[1]
            /\ mouse.m_pressed[1] = last_other[2]]_vars

\* C12 witness: react is about to run in a frame where the left button is
\* held, the right button was just released and the middle button was just
\* pressed.
C12_Witness ==
    /\ pc = "react"
    /\ mouse.l_pressed = <<TRUE, TRUE>>
    /\ mouse.r_pressed = <<FALSE, TRUE>>
    /\ mouse.m_pressed = <<TRUE, FALSE>>

(***************************************************************************)
(* Claims about the loading of the assets (checked under BitmapSpec).      *)
(***************************************************************************)

\* C13: load_png_from_memory stores for every decoded pixel (r, g, b, a)
\* the word a*2^24 + r*2^16 + g*2^8 + b, which is Pixel{a, r, g, b}.to_u32()
\* and which from_hex decodes to (a, r, g, b); the buffer keeps the order of
\* the source and has width*height words.
C13_AssetChannelOrder ==
    bitmap.op = "loaded" =>
        /\ Len(bitmap.buffer) = img.width * img.height
        /\ \A i \in 1..Len(bitmap.buffer) :
              LET r == img.pixels[i][1]
                  g == img.pixels[i][2]
                  b == img.pixels[i][3]
                  a == img.pixels[i][4]
              IN  /\ bitmap.buffer[i] = <<a * 256 + r, g * 256 + b>>
                  /\ bitmap.buffer[i] = to_u32(Pixel(a, r, g, b))
                  /\ from_hex(bitmap.buffer[i]) = Pixel(a, r, g, b)

\* C13 witness: an image of two rows and two columns whose pixels differ
\* has been loaded, one of them with an alpha above 127.
C13_Witness ==
    /\ bitmap.op = "loaded"
    /\ img.width = 2
    /\ img.height = 2
    /\ img.pixels[2] # img.pixels[3]
    /\ img.pixels[2][4] > 127
    /\ bitmap.buffer[2] # bitmap.buffer[3]

(***************************************************************************)
(* Claims about the game-over overlay and the banana counter (checked      *)
(* under Spec).                                                            *)
(***************************************************************************)

\* C14: show_game_over becomes true only on a game tick in which the snake
\* was alive before update() and is dead after it, and becomes false only
\* in a declaration pass that sees btn_restart or the overlay's button
\* clicked; the overlay is declared only while it is true, so once it was
\* dismissed it stays away for as long as the snake stays dead.
C14_OverlayLifecycle ==
    [][/\ (~show_game_over /\ show_game_over') =>
            /\ pc = "update"
            /\ frame_count % TickFrames = 0
            /\ ~snake_game.dead
            /\ snake_game'.dead
       /\ (pc = "update" /\ ~snake_game.dead /\ snake_game'.dead) =>
            show_game_over'
       /\ (show_game_over /\ ~show_game_over') =>
            /\ pc = "declare"
            /\ \/ ReactionOf(widgets, btn_restart_key).clicked
               \/ ReactionOf(widgets, oh_btn_key).clicked
       /\ (pc = "declare" /\ pc' = "solve" /\ overlay_key \in declared') =>
            (show_game_over /\ snake_game'.dead)
       /\ (snake_game.dead /\ snake_game'.dead /\ ~show_game_over) =>
            /\ ~show_game_over'
            /\ (pc = "declare" /\ pc' = "solve") =>
                   overlay_key \notin declared']_vars

\* C14 witness: the snake is dead, the overlay was dismissed with its
\* button (which is still in the store, focused by that click) and the
\* frame being built does not declare the overlay.
C14_Witness ==
    /\ pc = "free"
    /\ snake_game.dead
    /\ ~show_game_over
    /\ overlay_key \notin declared
    /\ oh_btn_key \in DOMAIN widgets
    /\ widgets[oh_btn_key].reaction.focused

(***************************************************************************)
(* Claims about big_3digits_display (checked under DisplaySpec).           *)
(***************************************************************************)
Pow10(i) == CASE i = 0 -> 1 [] i = 1 -> 10 [] i = 2 -> 100

\* C15: big_3digits_display(n) declares three placeholder holders as the
\* children of the display, in the order hundreds, tens, units, and a digit
\* sprite inside the holder of a position exactly if that digit or a more
\* significant one of n mod 1000 is non-zero; for n mod 1000 = 0 it
\* declares no digit sprite at all.
C15_ThreeDigits ==
    pc = "shown" =>
        LET m == snake_game.bananas_eaten % 1000
            holder(i) == big_display_key \o <<CompSite(120), i>>
            digit(i) == big_display_key \o <<CompSite(123), i>>
        IN  /\ widgets[big_display_key].children =
                   <<holder(2), holder(1), holder(0)>>
            /\ \A i \in 0..2 :
                  /\ holder(i) \in DOMAIN widgets
                  /\ widgets[holder(i)].props.sprite =
                         Sprite("bignum_placeholder")
                  /\ digit(i) \in DOMAIN widgets <=> m >= Pow10(i)
                  /\ m >= Pow10(i) =>
                         /\ widgets[holder(i)].children = <<digit(i)>>
                         /\ widgets[digit(i)].props.sprite =
                                DigitSprite("bignums", (m \div Pow10(i)) % 10)
                  /\ m < Pow10(i) => widgets[holder(i)].children = <<>>
            /\ m = 0 => declared = {big_display_key, holder(0), holder(1),
                                    holder(2)}
            /\ built_twice = {}

\* C15 witness: the display was declared for 1105: the thousands are not
\* shown, and the zero between the 1 and the 5 is.
C15_Witness ==
    /\ pc = "shown"
    /\ snake_game.bananas_eaten = 1105
    /\ widgets[big_display_key \o <<CompSite(123), 1>>].props.sprite =
           DigitSprite("bignums", 0)
    /\ Cardinality(declared) = 7

====
